---- MODULE Spec2Model ----
(***************************************************************************)
(* Model of the nexowatt-knx adapter (src/main.js, src/lib/knx-utils.js):  *)
(* the runtime synchronisation engine (TX queue, datapoint bindings,       *)
(* store -> bus command handling) and the pure helpers it uses.            *)
(*                                                                         *)
(* JavaScript values are records tagged by their type:                     *)
(*   [t |-> "boolean", b], [t |-> "number", n], [t |-> "string", s],       *)
(*   [t |-> "null"], [t |-> "undefined"], [t |-> "date", d]                *)
(* and a string is a sequence of one-character strings.  Numbers are the   *)
(* small naturals, strings are over the alphabet Digits, Letters, " ",     *)
(* "." ; the helpers are defined on that domain.                           *)
(***************************************************************************)
EXTENDS Integers, Sequences, FiniteSets, TLC

VARIABLES
    phase,               \* position of onReady: "constructed", "rebuilding", "running"
    objects,             \* persisted state objects under <namespace>.ga. : id -> native
    config,              \* this.config (ackOnWrite, readOnStart)
    knxConnection,       \* this.knxConnection # null
    knxConnected,        \* this.knxConnected
    datapointsByStateId, \* this.datapointsByStateId: relative id -> datapoint
    metaByStateId,       \* this.metaByStateId in insertion order: <<[id, ga, dpt, flags]>>
    txQueue,             \* this.txQueue
    txTimer,             \* this.txTimer # null
    listeners,           \* datapoints that have a 'change' listener registered
    connects,            \* number of createDatapoints runs that created datapoints
    enqueued,            \* number of jobs pushed so far (job numbers are 1..enqueued)
    executed,            \* history: the jobs run by the timer, in order
    storeWrites,         \* store writes issued by the last handler, in order
    escaped,             \* an exception or rejection left the last handler uncaught
    unloaded,            \* onUnload has run
    lastOp,              \* history: the handler that ran last, with its inputs
    flagTopology,        \* buildFlagsByGroupAddressId: result.topology.areas
    flagPos,             \* buildFlagsByGroupAddressId: references visited so far
    flagMap,             \* buildFlagsByGroupAddressId: map
    encAddr,             \* groupAddressNumberToString: addr
    encStyle,            \* groupAddressNumberToString: style
    encText,             \* groupAddressNumberToString: the string returned
    impPhase,            \* doImportEtsProject: "idle", "persisting", "done", "failed"
    impEntries,          \* doImportEtsProject: entries
    impPos,              \* doImportEtsProject: entries persisted by the loop
    impHash,             \* the value of the state info.etsHash
    impStore,            \* the channel and state objects under ga
    impError,            \* the error doImportEtsProject threw, or Null
    impRuns,             \* history: the imports started, with what they found
    rebuilding,          \* onMessage is inside rebuildRuntimeMapping, at its await
    messages,            \* history: the importEts messages handled
    callbacks,           \* number of times the callback of onUnload was invoked
    disconnecting        \* Disconnect holds the callback of onUnload, not yet invoked

engineVars == <<phase, objects, config, knxConnection, knxConnected, datapointsByStateId,
                metaByStateId, txQueue, txTimer, listeners, connects, enqueued, executed,
                storeWrites, escaped, unloaded, lastOp>>

\* the variables of the import helpers
pureVars == <<flagTopology, flagPos, flagMap, encAddr, encStyle, encText,
              impPhase, impEntries, impPos, impHash, impStore, impError, impRuns>>

\* the variables the engine's handlers do not touch
otherVars == <<pureVars, rebuilding, messages, callbacks, disconnecting>>

vars == <<engineVars, otherVars>>

-----------------------------------------------------------------------------
(* Bounds *)

MaxJobs == 2        \* jobs pushed in one behaviour
MaxConnects == 2    \* connected callbacks in one behaviour

-----------------------------------------------------------------------------
(* JavaScript values *)

Undefined == [t |-> "undefined"]
Null == [t |-> "null"]
Bool(b) == [t |-> "boolean", b |-> b]
Num(n) == [t |-> "number", n |-> n]
Str(s) == [t |-> "string", s |-> s]
DateOf(d) == [t |-> "date", d |-> d]

Digits == <<"0", "1", "2", "3", "4", "5", "6", "7", "8", "9">>

IsDigit(c) == \E i \in 1..10 : Digits[i] = c

DigitVal(c) == (CHOOSE i \in 1..10 : Digits[i] = c) - 1

IsDigits(s) == Len(s) > 0 /\ \A i \in 1..Len(s) : IsDigit(s[i])

RECURSIVE ParseDigits(_)
ParseDigits(s) ==
    IF s = <<>> THEN 0
    ELSE 10 * ParseDigits(SubSeq(s, 1, Len(s) - 1)) + DigitVal(s[Len(s)])

RECURSIVE NatToStr(_)
NatToStr(n) ==
    IF n < 10 THEN <<Digits[n + 1]>>
    ELSE NatToStr(n \div 10) \o <<Digits[(n % 10) + 1]>>

RECURSIVE TrimStart(_)
TrimStart(s) == IF s # <<>> /\ Head(s) = " " THEN TrimStart(Tail(s)) ELSE s

RECURSIVE TrimEnd(_)
TrimEnd(s) ==
    IF s # <<>> /\ s[Len(s)] = " " THEN TrimEnd(SubSeq(s, 1, Len(s) - 1)) ELSE s

Trim(s) == TrimEnd(TrimStart(s))

LowerChar(c) ==
    CASE c = "O" -> "o"
      [] c = "N" -> "n"
      [] c = "F" -> "f"
      [] c = "X" -> "x"
      [] OTHER -> c

ToLowerCase(s) == [i \in 1..Len(s) |-> LowerChar(s[i])]

\* String(val)
ToStr(val) ==
    CASE val.t = "string" -> val.s
      [] val.t = "boolean" -> IF val.b THEN <<"t", "r", "u", "e">>
                                       ELSE <<"f", "a", "l", "s", "e">>
      [] val.t = "number" -> NatToStr(val.n)
      [] val.t = "null" -> <<"n", "u", "l", "l">>
      [] OTHER -> <<"u", "n", "d", "e", "f", "i", "n", "e", "d">>

\* Boolean(val)
Truthy(val) ==
    CASE val.t = "boolean" -> val.b
      [] val.t = "number" -> val.n # 0
      [] val.t = "string" -> val.s # <<>>
      [] val.t = "date" -> TRUE
      [] OTHER -> FALSE

\* Number(val) of a string; NaN is Undefined here
StrToNumber(s) ==
    LET v == Trim(s) IN
    IF v = <<>> THEN Num(0)
    ELSE IF IsDigits(v) THEN Num(ParseDigits(v))
    ELSE Undefined

-----------------------------------------------------------------------------
(* src/lib/knx-utils.js *)

\* the index of the first "." of s, or 0
DotAt(s) ==
    IF \E i \in 1..Len(s) : s[i] = "."
    THEN CHOOSE i \in 1..Len(s) : s[i] = "." /\ \A j \in 1..(i - 1) : s[j] # "."
    ELSE 0

dptMajor(dpt) ==
    IF dpt.t # "string" \/ dpt.s = <<>> THEN Undefined
    ELSE LET s == Trim(dpt.s)
             k == DotAt(s)
             major == IF k = 0 THEN s ELSE SubSeq(s, 1, k - 1)
             minor == IF k = 0 THEN <<>> ELSE SubSeq(s, k + 1, Len(s))
         IN  IF IsDigits(major) /\ (k = 0 \/ IsDigits(minor))
             THEN Num(ParseDigits(major))
             ELSE Undefined

BoolTrueTokens == {<<"1">>, <<"t", "r", "u", "e">>, <<"o", "n">>, <<"y", "e", "s">>}
BoolFalseTokens == {<<"0">>, <<"f", "a", "l", "s", "e">>, <<"o", "f", "f">>, <<"n", "o">>}

\* The set of values coerceToKnxValue can return: a single value, except
\* where the result depends on the clock or on the engine's date parser.
coerceToKnxValue(val, dpt) ==
    LET major == dptMajor(dpt) IN
    IF major = Num(1) THEN
        IF val.t = "boolean" THEN {val}
        ELSE IF val.t = "number" THEN {Bool(val.n # 0)}
        ELSE IF val.t = "string" /\ ToLowerCase(Trim(val.s)) \in BoolTrueTokens
            THEN {Bool(TRUE)}
        ELSE IF val.t = "string" /\ ToLowerCase(Trim(val.s)) \in BoolFalseTokens
            THEN {Bool(FALSE)}
        ELSE {Bool(Truthy(val))}
    ELSE IF major = Num(16) THEN
        IF val.t \in {"null", "undefined"} THEN {Str(<<>>)} ELSE {Str(ToStr(val))}
    ELSE IF major = Num(19) THEN
        IF val.t = "date" THEN {val}
        ELSE IF val.t = "number" THEN {DateOf(val)}
        ELSE IF val.t = "string" THEN {DateOf(val), DateOf(Str(<<"n", "o", "w">>))}
        ELSE {DateOf(Str(<<"n", "o", "w">>))}
    ELSE
        IF val.t = "number" THEN {val}
        ELSE IF val.t = "boolean" THEN {Num(IF val.b THEN 1 ELSE 0)}
        ELSE IF val.t = "string" /\ StrToNumber(val.s) # Undefined
            THEN {StrToNumber(val.s)}
        ELSE {Num(0)}

-----------------------------------------------------------------------------
(* Identifiers.  An identifier is the sequence of its dot-separated         *)
(* segments, so that startsWith / slice act on it as on the string.         *)

Namespace == <<"nexowatt-knx", "0">>

StartsWith(s, prefix) ==
    Len(s) >= Len(prefix) /\ SubSeq(s, 1, Len(prefix)) = prefix

Slice(s, n) == SubSeq(s, n + 1, Len(s))

IdA == <<"ga", "a">>
IdB == <<"ga", "b">>

\* the persisted state ids under <namespace>.ga., in the key order of the object view
ObjIds == <<IdA, IdB>>

\* identifiers of store events
EventIds ==
    { Namespace \o IdA, Namespace \o IdB,
      Namespace \o <<"info", "connection">>,
      <<"other", "0">> \o IdA }

\* values of store events
EventVals == { Str(<<" ", "O", "N">>) }

\* a store event's state: null, or a value with its ack flag
EventStates == {Null} \cup { [t |-> "state", val |-> v, ack |-> a] : v \in EventVals, a \in BOOLEAN }

Flags(r, w, t, u) == [readFlag |-> r, writeFlag |-> w, transmitFlag |-> t, updateFlag |-> u]

Native(ga, dpt, flags) == [ga |-> ga, dpt |-> dpt, flags |-> flags]

Ga1 == Str(<<"1", "/", "0", "/", "1">>)
Ga2 == Str(<<"1", "/", "0", "/", "2">>)

\* the persisted objects the adapter can start with
ObjectSets ==
    { (IdA :> Native(Ga1, Str(<<"1", ".", "0", "0", "1">>),
                     Flags(Bool(TRUE), Bool(TRUE), Bool(TRUE), Bool(FALSE))) @@
       IdB :> Native(Ga2, Str(<<"1", "6", ".", "0", "0", "0">>),
                     Flags(Bool(TRUE), Bool(FALSE), Undefined, Bool(FALSE)))),
      (IdA :> Native(Ga1, Str(<<"9", ".", "0", "0", "1">>),
                     Flags(Bool(FALSE), Bool(TRUE), Bool(TRUE), Bool(FALSE))) @@
       IdB :> Native(Ga1, Undefined,
                     Flags(Bool(FALSE), Bool(FALSE), Bool(FALSE), Bool(FALSE)))),
      (IdA :> Native(Undefined, Undefined,
                     Flags(Undefined, Undefined, Undefined, Undefined)) @@
       IdB :> Native(Ga1, Str(<<"1", "9", ".", "0", "0", "1">>),
                     Flags(Bool(TRUE), Bool(TRUE), Bool(FALSE), Bool(TRUE)))) }

-----------------------------------------------------------------------------
(* Map helpers: metaByStateId keeps insertion order, as a JavaScript Map    *)

MetaIds == { metaByStateId[i].id : i \in 1..Len(metaByStateId) }

MetaGet(id) ==
    LET i == CHOOSE i \in 1..Len(metaByStateId) : metaByStateId[i].id = id
    IN  metaByStateId[i]

DpIds == DOMAIN datapointsByStateId

Range(f) == { f[x] : x \in DOMAIN f }

-----------------------------------------------------------------------------
(* rebuildRuntimeMapping: the record built from one row of the object view  *)

MetaOfRow(id, native) ==
    [ id |-> id,
      ga |-> Str(ToStr(native.ga)),
      dpt |-> IF Truthy(native.dpt) THEN Str(ToStr(native.dpt)) ELSE Undefined,
      flags |-> [ readFlag |-> Truthy(native.flags.readFlag),
                  writeFlag |-> Truthy(native.flags.writeFlag),
                  transmitFlag |-> IF native.flags.transmitFlag = Undefined THEN TRUE
                                   ELSE Truthy(native.flags.transmitFlag),
                  updateFlag |-> Truthy(native.flags.updateFlag) ] ]

\* faulty variant: a row without an address gets a record as well
MetaOfRowsUnfiltered(ids, objs) ==
    LET present == SelectSeq(ids, LAMBDA id : id \in DOMAIN objs)
    IN  [i \in DOMAIN present |-> MetaOfRow(present[i], objs[present[i]])]

\* the loop over the rows of the view: a row without native.ga is skipped
RECURSIVE MetaOfRows(_, _)
MetaOfRows(ids, objs) ==
    IF ids = <<>> THEN <<>>
    ELSE LET id == Head(ids) IN
         IF id \in DOMAIN objs /\ Truthy(objs[id].ga)
         THEN <<MetaOfRow(id, objs[id])>> \o MetaOfRows(Tail(ids), objs)
         ELSE MetaOfRows(Tail(ids), objs)

-----------------------------------------------------------------------------
(* Store writes *)

StoreWrite(id, val, ack) == [id |-> id, val |-> val, ack |-> ack]

InfoConnection == <<"info", "connection">>

-----------------------------------------------------------------------------
\* the fields the constructor sets
Constructed ==
    /\ phase = "constructed"
    /\ knxConnection = FALSE
    /\ knxConnected = FALSE
    /\ datapointsByStateId = <<>>
    /\ metaByStateId = <<>>
    /\ txQueue = <<>>
    /\ txTimer = FALSE
    /\ listeners = {}
    /\ connects = 0
    /\ enqueued = 0
    /\ executed = <<>>
    /\ storeWrites = <<>>
    /\ escaped = FALSE
    /\ unloaded = FALSE
    /\ callbacks = 0
    /\ disconnecting = FALSE
    /\ lastOp = [op |-> "constructor"]

\* the engine after the constructor, with the object store and the
\* configuration it finds
EngineInit ==
    /\ Constructed
    /\ objects \in ObjectSets
    /\ config \in [ackOnWrite : BOOLEAN, readOnStart : BOOLEAN]

\* no project is being aggregated
FlagsIdle == flagTopology = <<>> /\ flagPos = 0 /\ flagMap = <<>>

\* no address is being rendered
CodecIdle == encAddr = Undefined /\ encStyle = "ThreeLevel" /\ encText = Undefined

\* a fresh instance: nothing imported yet
ImportIdle ==
    /\ impPhase = "idle"
    /\ impEntries = <<>>
    /\ impPos = 0
    /\ impHash = Undefined
    /\ impStore = <<>>
    /\ impError = Null
    /\ impRuns = <<>>

\* no importEts message has arrived
MessageIdle == rebuilding = FALSE /\ messages = 0

Init == EngineInit /\ FlagsIdle /\ CodecIdle /\ ImportIdle /\ MessageIdle

-----------------------------------------------------------------------------
(* Datapoints and TX jobs *)

\* the knx.Datapoint created for a mapping record by the gen-th createDatapoints
Datapoint(meta, gen) == [id |-> meta.id, gen |-> gen, ga |-> meta.ga, dpt |-> meta.dpt]

DpGet(id) == IF id \in DpIds THEN datapointsByStateId[id] ELSE Undefined

\* a TxJob {fn, descr}: fn is dp.write(value) or dp.read(); n numbers the pushes
WriteJob(n, dp, value, meta) ==
    [n |-> n, kind |-> "write", dp |-> dp, value |-> value, descr |-> <<"write", meta.ga>>]

ReadJob(n, dp, meta) ==
    [n |-> n, kind |-> "read", dp |-> dp, value |-> Undefined, descr |-> <<"read", meta.ga>>]

\* faulty variant: the job is put at the front of the queue
enqueueKnxUnshift(queue, job) == <<job>> \o queue

enqueueKnx(queue, job) == Append(queue, job)

JobNumbers(jobs) == [i \in 1..Len(jobs) |-> jobs[i].n]

-----------------------------------------------------------------------------
(* onReady: up to the await inside rebuildRuntimeMapping *)

onReady ==
    /\ phase = "constructed"
    /\ phase' = "rebuilding"
    /\ metaByStateId' = <<>>
    /\ storeWrites' = <<StoreWrite(InfoConnection, Bool(FALSE), TRUE)>>
    /\ escaped' = FALSE
    /\ lastOp' = [op |-> "onReady"]
    /\ UNCHANGED <<objects, config, knxConnection, knxConnected, datapointsByStateId,
                   txQueue, txTimer, listeners, connects, enqueued, executed,
                   unloaded>>
    /\ UNCHANGED otherVars

(* onReady resumed: the rows of the object view are inserted, the adapter   *)
(* subscribes to ga.* and connectKnx runs; connectKnx leaves knxConnection  *)
(* null when no gateway is configured or the constructor throws             *)
onReadyRebuilt ==
    /\ phase = "rebuilding"
    /\ phase' = "running"
    /\ metaByStateId' = MetaOfRows(ObjIds, objects)
    /\ \E ok \in BOOLEAN : knxConnection' = ok
    /\ storeWrites' = <<>>
    /\ escaped' = FALSE
    /\ lastOp' = [op |-> "onReadyRebuilt"]
    /\ UNCHANGED <<objects, config, knxConnected, datapointsByStateId,
                   txQueue, txTimer, listeners, connects, enqueued, executed,
                   unloaded>>
    /\ UNCHANGED otherVars

-----------------------------------------------------------------------------
(* KNX connection callbacks *)

\* faulty variant: the cleanup loop is missing
CleanedListenersKept == listeners

\* createDatapoints: the listeners left after the cleanup loop
CleanedListeners == listeners \ Range(datapointsByStateId)

\* createDatapoints: the new index; failing = records whose datapoint constructor throws
createDatapoints(failing) ==
    [id \in MetaIds \ failing |-> Datapoint(MetaGet(id), connects + 1)]

\* enqueueInitialReads: the queue after the pushes, in the mapping's iteration order
RECURSIVE InitialReads(_, _, _, _)
InitialReads(metas, dps, queue, n) ==
    IF metas = <<>> THEN queue
    ELSE LET meta == Head(metas) IN
         IF meta.id \in DOMAIN dps /\ meta.flags.readFlag
         THEN InitialReads(Tail(metas), dps,
                           enqueueKnx(queue, ReadJob(n + 1, dps[meta.id], meta)), n + 1)
         ELSE InitialReads(Tail(metas), dps, queue, n)

\* faulty variant: the reads are pushed whatever config.readOnStart says
enqueueInitialReadsAlways(dps) == InitialReads(metaByStateId, dps, txQueue, enqueued)

\* if (this.config.readOnStart) this.enqueueInitialReads()
enqueueInitialReads(dps) ==
    IF config.readOnStart THEN InitialReads(metaByStateId, dps, txQueue, enqueued)
    ELSE txQueue

\* faulty variant: startTxQueue returns without setting the interval
startTxQueueSkipped == txTimer

\* startTxQueue: txTimer afterwards; the interval is set unless one is running
startTxQueue == TRUE

\* createDatapoints returns at once while knxConnection is null; the callbacks
\* only exist once connectKnx has set it
onKnxConnected ==
    /\ knxConnection
    /\ connects < MaxConnects
    /\ \E failing \in SUBSET MetaIds :
         LET dps == createDatapoints(failing)
             queue == enqueueInitialReads(dps)
             pushed == Len(queue) - Len(txQueue)
         IN  /\ enqueued + pushed <= MaxJobs
             /\ knxConnected' = TRUE
             /\ storeWrites' = <<StoreWrite(InfoConnection, Bool(TRUE), TRUE)>>
             /\ txTimer' = startTxQueue
             /\ listeners' = CleanedListeners \cup Range(dps)
             /\ datapointsByStateId' = dps
             /\ txQueue' = queue
             /\ enqueued' = enqueued + pushed
             /\ connects' = connects + 1
             /\ escaped' = FALSE
             /\ lastOp' = [op |-> "onKnxConnected"]
    /\ UNCHANGED <<phase, objects, config, knxConnection, metaByStateId, executed,
                   unloaded>>
    /\ UNCHANGED otherVars

\* faulty variant: the callback does not clear knxConnected
onKnxDisconnectedFlagKept ==
    /\ knxConnection
    /\ storeWrites' = <<StoreWrite(InfoConnection, Bool(FALSE), TRUE)>>
    /\ escaped' = FALSE
    /\ lastOp' = [op |-> "onKnxDisconnected"]
    /\ UNCHANGED <<phase, objects, config, knxConnection, knxConnected,
                   datapointsByStateId, metaByStateId, txQueue, txTimer, listeners,
                   connects, enqueued, executed, unloaded>>
    /\ UNCHANGED otherVars

onKnxDisconnected ==
    /\ knxConnection
    /\ knxConnected' = FALSE
    /\ storeWrites' = <<StoreWrite(InfoConnection, Bool(FALSE), TRUE)>>
    /\ escaped' = FALSE
    /\ lastOp' = [op |-> "onKnxDisconnected"]
    /\ UNCHANGED <<phase, objects, config, knxConnection, datapointsByStateId,
                   metaByStateId, txQueue, txTimer, listeners, connects, enqueued,
                   executed, unloaded>>
    /\ UNCHANGED otherVars

onKnxError ==
    /\ knxConnection
    /\ storeWrites' = <<>>
    /\ escaped' = FALSE
    /\ lastOp' = [op |-> "onKnxError"]
    /\ UNCHANGED <<phase, objects, config, knxConnection, knxConnected,
                   datapointsByStateId, metaByStateId, txQueue, txTimer, listeners,
                   connects, enqueued, executed, unloaded>>
    /\ UNCHANGED otherVars

-----------------------------------------------------------------------------
(* The setInterval callback of startTxQueue *)

\* faulty variant: the callback does not look at knxConnected
TickGateOpen == TRUE

\* the callback goes past its first return
TickGate == knxConnected

\* faulty variant: job.fn() runs outside try/catch
TickEscapedUncaught(threw) == threw

\* an exception thrown by job.fn() leaves the callback
TickEscaped(threw) == FALSE

txTimerTick ==
    /\ txTimer
    /\ storeWrites' = <<>>
    /\ IF TickGate /\ txQueue # <<>>
       THEN \E threw \in BOOLEAN :
              /\ txQueue' = Tail(txQueue)
              /\ executed' = Append(executed, Head(txQueue))
              /\ escaped' = TickEscaped(threw)
              /\ lastOp' = [op |-> "txTimerTick", ran |-> TRUE, threw |-> threw]
       ELSE /\ UNCHANGED <<txQueue, executed>>
            /\ escaped' = FALSE
            /\ lastOp' = [op |-> "txTimerTick", ran |-> FALSE, threw |-> FALSE]
    /\ UNCHANGED <<phase, objects, config, knxConnection, knxConnected,
                   datapointsByStateId, metaByStateId, txTimer, listeners, connects,
                   enqueued, unloaded>>
    /\ UNCHANGED otherVars

-----------------------------------------------------------------------------
(* onUnload *)

\* faulty variant: onUnload clears the index without removing the listeners
UnloadedListenersKept == listeners

\* the listeners left after the removeAllListeners loop
UnloadedListeners == listeners \ Range(datapointsByStateId)

\* faulty variant: the connection is asked to disconnect first
UnloadCallsDisconnectFirst(thrown) ==
    (IF knxConnection THEN <<[call |-> "Disconnect"]>> ELSE <<>>)
    \o (IF txTimer THEN <<[call |-> "clearInterval"]>> ELSE <<>>)
    \o <<[call |-> "removeAllListeners", dps |-> Range(datapointsByStateId)],
         [call |-> "clear"]>>
    \o (IF knxConnection /\ ~thrown THEN <<>> ELSE <<[call |-> "callback"]>>)

\* the calls onUnload makes, in program order; thrown: Disconnect throws,
\* which the outer catch swallows before the callback() after it
UnloadCalls(thrown) ==
    (IF txTimer THEN <<[call |-> "clearInterval"]>> ELSE <<>>)
    \o <<[call |-> "removeAllListeners", dps |-> Range(datapointsByStateId)],
         [call |-> "clear"]>>
    \o (IF knxConnection THEN <<[call |-> "Disconnect"]>> ELSE <<>>)
    \o (IF knxConnection /\ ~thrown THEN <<>> ELSE <<[call |-> "callback"]>>)

onUnload ==
    /\ ~unloaded
    /\ unloaded' = TRUE
    /\ txTimer' = FALSE
    /\ listeners' = UnloadedListeners
    /\ datapointsByStateId' = <<>>
    /\ \E thrown \in (IF knxConnection THEN BOOLEAN ELSE {FALSE}) :
          /\ disconnecting' = (knxConnection /\ ~thrown)
          /\ callbacks' = IF knxConnection /\ ~thrown THEN callbacks ELSE callbacks + 1
          /\ lastOp' = [op |-> "onUnload", calls |-> UnloadCalls(thrown)]
    /\ storeWrites' = <<>>
    /\ escaped' = FALSE
    /\ UNCHANGED <<phase, objects, config, knxConnection, knxConnected, metaByStateId,
                   txQueue, connects, enqueued, executed>>
    /\ UNCHANGED <<pureVars, rebuilding, messages>>

\* the connection invokes the function onUnload handed to Disconnect
disconnectCallback ==
    /\ disconnecting
    /\ disconnecting' = FALSE
    /\ callbacks' = callbacks + 1
    /\ storeWrites' = <<>>
    /\ escaped' = FALSE
    /\ lastOp' = [op |-> "disconnectCallback"]
    /\ UNCHANGED <<phase, objects, config, knxConnection, knxConnected,
                   datapointsByStateId, metaByStateId, txQueue, txTimer, listeners,
                   connects, enqueued, executed, unloaded>>
    /\ UNCHANGED <<pureVars, rebuilding, messages>>

-----------------------------------------------------------------------------
(* onStateChange: store -> bus *)

\* faulty variant: the ack flag is not looked at
IgnoredStateOnly(state) == state = Null

\* the first two returns: no state, or an acknowledged state
Ignored(state) == state = Null \/ state.ack

\* idFull.startsWith(namespace + '.')
InNamespace(idFull) == StartsWith(idFull, Namespace) /\ Len(idFull) > Len(Namespace)

\* idRel.startsWith('ga.')
InGa(idRel) == StartsWith(idRel, <<"ga">>) /\ Len(idRel) > 1

\* faulty variant: the datapoint is not required
MappedMetaOnly(idRel) == idRel \in MetaIds

\* meta && dp
Mapped(idRel) == idRel \in MetaIds /\ idRel \in DpIds

\* faulty variant: the read flag is tested first
CommandKindReadFirst(flags) ==
    IF flags.readFlag THEN "read"
    ELSE IF flags.writeFlag THEN "write"
    ELSE "none"

\* the branch taken on the record's flags
CommandKind(flags) ==
    IF flags.writeFlag THEN "write"
    ELSE IF flags.readFlag THEN "read"
    ELSE "none"

\* faulty variant: the value is written back without the ack flag
AckOnWriteUnacked(idRel, val) ==
    IF config.ackOnWrite THEN <<StoreWrite(idRel, val, FALSE)>> ELSE <<>>

\* the store writes of the branch: setStateAsync(idRel, state.val, true) if configured
AckOnWrite(idRel, val) ==
    IF config.ackOnWrite THEN <<StoreWrite(idRel, val, TRUE)>> ELSE <<>>

\* the event reaches the flag branches
Accepted(idFull, state) ==
    /\ ~Ignored(state)
    /\ InNamespace(idFull)
    /\ InGa(Slice(idFull, Len(Namespace)))
    /\ Mapped(Slice(idFull, Len(Namespace)))

\* events are delivered once onReady has subscribed, and not after unload
onStateChange(idFull, state) ==
    /\ phase = "running"
    /\ ~unloaded
    /\ lastOp' = [op |-> "onStateChange", id |-> idFull, state |-> state]
    /\ IF ~Accepted(idFull, state)
       THEN /\ storeWrites' = <<>>
            /\ escaped' = FALSE
            /\ UNCHANGED <<txQueue, enqueued>>
       ELSE LET idRel == Slice(idFull, Len(Namespace))
                meta == MetaGet(idRel)
                dp == DpGet(idRel)
                kind == CommandKind(meta.flags)
            IN  /\ kind # "none" => enqueued < MaxJobs
                /\ CASE kind = "write" ->
                          \E value \in coerceToKnxValue(state.val, meta.dpt) :
                            txQueue' = enqueueKnx(txQueue, WriteJob(enqueued + 1, dp, value, meta))
                     [] kind = "read" ->
                          txQueue' = enqueueKnx(txQueue, ReadJob(enqueued + 1, dp, meta))
                     [] OTHER -> txQueue' = txQueue
                /\ enqueued' = IF kind = "none" THEN enqueued ELSE enqueued + 1
                /\ storeWrites' = AckOnWrite(idRel, state.val)
                \* a rejected setStateAsync rejects the handler's promise, which nobody awaits
                /\ \E rejected \in BOOLEAN :
                     escaped' = (rejected /\ storeWrites' # <<>>)
    /\ UNCHANGED <<phase, objects, config, knxConnection, knxConnected,
                   datapointsByStateId, metaByStateId, txTimer, listeners, connects,
                   executed, unloaded>>
    /\ UNCHANGED otherVars

-----------------------------------------------------------------------------
(* Bus -> store: a telegram changes the value of group address ga; every    *)
(* datapoint of that address emits 'change' and each listener registered by *)
(* createDatapoints calls onKnxDatapointChange with its own stateIdRel      *)

BusGas == {Ga1, Ga2}

Epoch0 == DateOf(Num(0))

BusVals == {Num(1), Epoch0}

\* Date.prototype.toISOString
toISOString(date) ==
    IF date = Epoch0
    THEN <<"1", "9", "7", "0", "-", "0", "1", "-", "0", "1", "T",
           "0", "0", ":", "0", "0", ":", "0", "0", ".", "0", "0", "0", "Z">>
    ELSE <<"i", "s", "o">> \o ToStr(date.d)

\* the value onKnxDatapointChange stores
StoredValue(newVal) == IF newVal.t = "date" THEN Str(toISOString(newVal)) ELSE newVal

\* the listeners of address ga in registration order: by createDatapoints run,
\* then by the mapping's iteration order
RECURSIVE ListenersOf(_, _, _)
ListenersOf(ga, gen, ids) ==
    IF gen > connects THEN <<>>
    ELSE IF ids = <<>> THEN ListenersOf(ga, gen + 1, ObjIds)
    ELSE LET hit == { dp \in listeners : dp.ga = ga /\ dp.gen = gen /\ dp.id = Head(ids) }
         IN  (IF hit = {} THEN <<>> ELSE <<CHOOSE dp \in hit : TRUE>>)
             \o ListenersOf(ga, gen, Tail(ids))

onKnxDatapointChange(stateIdRel, newVal) == StoreWrite(stateIdRel, StoredValue(newVal), TRUE)

\* faulty variant: a rejected write keeps the later listeners from writing
ChangeWritesUntilRejected(notified, newVal, rejected) ==
    LET stop == IF rejected = {} THEN Len(notified)
                ELSE CHOOSE i \in rejected : \A j \in rejected : i <= j
    IN  [i \in 1..stop |-> onKnxDatapointChange(notified[i].id, newVal)]

\* the store writes of the 'change' listeners, one call of
\* onKnxDatapointChange each; the calls whose setStateAsync is rejected
\* (rejected) catch and log
ChangeWrites(notified, newVal, rejected) ==
    [i \in 1..Len(notified) |-> onKnxDatapointChange(notified[i].id, newVal)]

busChange(ga, newVal) ==
    /\ knxConnection
    /\ LET notified == ListenersOf(ga, 1, ObjIds)
       IN  \E rejected \in SUBSET (1..Len(notified)) :
              /\ storeWrites' = ChangeWrites(notified, newVal, rejected)
              /\ lastOp' = [op |-> "busChange", ga |-> ga, val |-> newVal,
                            rejected |-> rejected]
    /\ escaped' = FALSE
    /\ UNCHANGED <<phase, objects, config, knxConnection, knxConnected,
                   datapointsByStateId, metaByStateId, txQueue, txTimer, listeners,
                   connects, enqueued, executed, unloaded>>
    /\ UNCHANGED otherVars

-----------------------------------------------------------------------------
Next ==
    \/ onReady
    \/ onReadyRebuilt
    \/ \E idFull \in EventIds, state \in EventStates : onStateChange(idFull, state)
    \/ onKnxConnected
    \/ onKnxDisconnected
    \/ onKnxError
    \/ txTimerTick
    \/ \E ga \in BusGas, newVal \in BusVals : busChange(ga, newVal)
    \/ onUnload

Spec == Init /\ [][Next]_vars

-----------------------------------------------------------------------------
(* src/lib/knx-utils.js (ets-import part): buildFlagsByGroupAddressId.      *)
(* The topology is areas > lines > devices > communication object           *)
(* references > connectors > send / receive references; the nested loops    *)
(* visit the references of the flattened list in order.                     *)

\* the engine, constructed and left alone
EngineIdle ==
    /\ Constructed
    /\ objects = <<>>
    /\ config = [ackOnWrite |-> FALSE, readOnStart |-> FALSE]

MaxCors == 3

GaId1 == Str(<<"G", "1">>)
GaId2 == Str(<<"G", "2">>)

\* a send / receive reference: __groupAddressRefID and __groupAddressRedID
Ref(refId, redId) == [refId |-> refId, redId |-> redId]

Connector(send, receive) == [send |-> send, receive |-> receive]

Cor(isActive, flags, connectors) ==
    [isActive |-> isActive, flags |-> flags, connectors |-> connectors]

\* the communication object references the projects are built from
CorPool ==
    { Cor(Undefined, Flags(Bool(FALSE), Bool(TRUE), Bool(FALSE), Bool(FALSE)),
          << Connector(<< Ref(GaId1, Undefined) >>, <<>>) >>),
      Cor(Bool(TRUE), Flags(Bool(TRUE), Undefined, Bool(FALSE), Bool(FALSE)),
          << Connector(<<>>, << Ref(Undefined, GaId1) >>) >>),
      Cor(Bool(FALSE), Flags(Bool(TRUE), Bool(TRUE), Bool(TRUE), Bool(TRUE)),
          << Connector(<< Ref(GaId1, Undefined) >>, << Ref(GaId2, Undefined) >>) >>),
      Cor(Bool(TRUE), Flags(Bool(FALSE), Bool(FALSE), Bool(TRUE), Bool(TRUE)),
          << Connector(<< Ref(GaId2, Undefined) >>, <<>>),
             Connector(<<>>, << Ref(GaId1, GaId2), Ref(GaId2, Undefined) >>) >>),
      Cor(Null, Flags(Bool(TRUE), Bool(FALSE), Bool(FALSE), Bool(FALSE)),
          << Connector(<< Ref(Undefined, GaId2) >>, << Ref(Str(<<>>), Undefined) >>) >>) }

\* the projects: the references cors, the first k of them in one area and
\* the others in a second device of a second area
Topology(cors, k) ==
    LET Device(list) == [communicationObjectReferences |-> list]
        Line(devices) == [devices |-> devices]
        Area(lines) == [lines |-> lines]
    IN  << Area(<< Line(<< Device(SubSeq(cors, 1, k)) >>) >>),
           Area(<< Line(<< Device(<<>>), Device(SubSeq(cors, k + 1, Len(cors))) >>) >>) >>

CorSeqs ==
    UNION { { seq \in [1..n -> CorPool] :
                \A i, j \in 1..n : seq[i] = seq[j] => i = j } : n \in 0..MaxCors }

RECURSIVE ConcatAll(_)
ConcatAll(seqs) ==
    IF seqs = <<>> THEN <<>> ELSE Head(seqs) \o ConcatAll(Tail(seqs))

\* the references in the order the loops over areas, lines and devices reach them
CorsOf(areas) ==
    ConcatAll([a \in DOMAIN areas |->
        ConcatAll([l \in DOMAIN areas[a].lines |->
            ConcatAll([d \in DOMAIN areas[a].lines[l].devices |->
                areas[a].lines[l].devices[d].communicationObjectReferences])])])

\* Boolean(cor?.readFlag) and its siblings
CorFlags(cor) ==
    [readFlag     |-> Truthy(cor.flags.readFlag),
     writeFlag    |-> Truthy(cor.flags.writeFlag),
     transmitFlag |-> Truthy(cor.flags.transmitFlag),
     updateFlag   |-> Truthy(cor.flags.updateFlag)]

\* faulty variant: the flags of the latest reference replace the aggregate
OrFlagsAssigned(agg, flags) == flags

\* agg.readFlag = agg.readFlag || flags.readFlag, and its siblings
OrFlags(agg, flags) ==
    [readFlag     |-> agg.readFlag \/ flags.readFlag,
     writeFlag    |-> agg.writeFlag \/ flags.writeFlag,
     transmitFlag |-> agg.transmitFlag \/ flags.transmitFlag,
     updateFlag   |-> agg.updateFlag \/ flags.updateFlag]

\* one send or receive reference: skipped without an id
AggregateRef(map, gaId, flags) ==
    IF ~Truthy(gaId) THEN map
    ELSE LET agg == IF gaId \in DOMAIN map THEN map[gaId]
                    ELSE [readFlag |-> FALSE, writeFlag |-> FALSE,
                          transmitFlag |-> FALSE, updateFlag |-> FALSE]
         IN  [x \in DOMAIN map \cup {gaId} |->
                IF x = gaId THEN OrFlags(agg, flags) ELSE map[x]]

RECURSIVE AggregateRefs(_, _, _)
AggregateRefs(map, gaIds, flags) ==
    IF gaIds = <<>> THEN map
    ELSE AggregateRefs(AggregateRef(map, Head(gaIds), flags), Tail(gaIds), flags)

\* the send references of a connector, then its receive references
\* (s.__groupAddressRefID; r.__groupAddressRefID || r.__groupAddressRedID)
ConnectorIds(c) ==
    [i \in DOMAIN c.send |-> c.send[i].refId] \o
    [i \in DOMAIN c.receive |->
        IF Truthy(c.receive[i].refId) THEN c.receive[i].refId ELSE c.receive[i].redId]

\* one communication object reference: skipped when isActive === false
AggregateCor(map, cor) ==
    IF cor.isActive = Bool(FALSE) THEN map
    ELSE AggregateRefs(map,
                       ConcatAll([i \in DOMAIN cor.connectors |->
                                     ConnectorIds(cor.connectors[i])]),
                       CorFlags(cor))

RECURSIVE AggregateCors(_, _)
AggregateCors(map, cors) ==
    IF cors = <<>> THEN map
    ELSE AggregateCors(AggregateCor(map, Head(cors)), Tail(cors))

buildFlagsByGroupAddressId(areas) == AggregateCors(<<>>, CorsOf(areas))

\* a parsed project is handed to buildFlagsByGroupAddressId
FlagsInit ==
    /\ EngineIdle
    /\ CodecIdle
    /\ ImportIdle
    /\ MessageIdle
    /\ \E cors \in CorSeqs, k \in 0..1 :
          flagTopology = Topology(cors, IF k <= Len(cors) THEN k ELSE 0)
    /\ flagPos = 0
    /\ flagMap = <<>>

\* one iteration of the loop over communicationObjectReferences
flagsVisit ==
    /\ flagPos < Len(CorsOf(flagTopology))
    /\ flagPos' = flagPos + 1
    /\ flagMap' = AggregateCor(flagMap, CorsOf(flagTopology)[flagPos + 1])
    /\ UNCHANGED <<flagTopology, engineVars, encAddr, encStyle, encText, impPhase,
                   impEntries, impPos, impHash, impStore, impError, impRuns,
                   rebuilding, messages,
                   callbacks, disconnecting>>

FlagsNext == flagsVisit

SpecFlags == FlagsInit /\ [][FlagsNext]_vars

-----------------------------------------------------------------------------
(* src/lib/knx-utils.js: groupAddressNumberToString *)

\* addr & 0xffff on an integer: the low 16 bits of its two's complement
Low16(n) == n % 65536

\* faulty variant: TwoLevel keeps 8 bits of sub
groupAddressNumberToStringShortSub(addr, style) ==
    IF addr.t # "number" THEN ToStr(addr)
    ELSE LET safe == Low16(addr.n)
         IN  IF style = "TwoLevel"
             THEN NatToStr((safe \div 2048) % 32) \o <<"/">> \o NatToStr(safe % 256)
             ELSE NatToStr((safe \div 2048) % 32) \o <<"/">> \o
                  NatToStr((safe \div 256) % 8) \o <<"/">> \o NatToStr(safe % 256)

groupAddressNumberToString(addr, style) ==
    IF addr.t # "number" THEN ToStr(addr)
    ELSE LET safe == Low16(addr.n)
         IN  IF style = "TwoLevel"
             THEN NatToStr((safe \div 2048) % 32) \o <<"/">> \o NatToStr(safe % 2048)
             ELSE NatToStr((safe \div 2048) % 32) \o <<"/">> \o
                  NatToStr((safe \div 256) % 8) \o <<"/">> \o NatToStr(safe % 256)

\* the addresses of the 16-bit range
AddressRange == 0..65535

\* the addresses, integers outside the 16-bit range and values that are not
\* numbers
EncInputs ==
    {Num(n) : n \in AddressRange \cup {0 - 65536, 0 - 2049, 0 - 1, 65536, 65537, 67841, 131071}}
    \cup {Undefined, Null, Str(<<"1", "/", "2", "/", "3">>)}

\* a caller is about to render addr in style
CodecInit ==
    /\ EngineIdle
    /\ FlagsIdle
    /\ ImportIdle
    /\ MessageIdle
    /\ encAddr \in EncInputs
    /\ encStyle \in {"ThreeLevel", "TwoLevel", "Free"}
    /\ encText = Undefined

\* the call returns
encode ==
    /\ encText = Undefined
    /\ encText' = Str(groupAddressNumberToString(encAddr, encStyle))
    /\ UNCHANGED <<encAddr, encStyle, engineVars, flagTopology, flagPos, flagMap,
                   impPhase, impEntries, impPos, impHash, impStore, impError, impRuns,
                   rebuilding, messages,
                   callbacks, disconnecting>>

CodecNext == encode

SpecCodec == CodecInit /\ [][CodecNext]_vars

-----------------------------------------------------------------------------
(* src/lib/knx-utils.js: sanitizeIdSegment, etsDptToKnxDpt, inferCommonFromDpt *)

\* the characters of [A-Za-z0-9_\-]
IdChars ==
    {Digits[i] : i \in 1..10} \cup {"_", "-"} \cup
    {"A", "B", "C", "D", "E", "F", "G", "H", "I", "J", "K", "L", "M",
     "N", "O", "P", "Q", "R", "S", "T", "U", "V", "W", "X", "Y", "Z",
     "a", "b", "c", "d", "e", "f", "g", "h", "i", "j", "k", "l", "m",
     "n", "o", "p", "q", "r", "s", "t", "u", "v", "w", "x", "y", "z"}

\* every run of characters of set becomes one "_"
RECURSIVE DropWhileIn(_, _)
DropWhileIn(s, set) ==
    IF s # <<>> /\ Head(s) \in set THEN DropWhileIn(Tail(s), set) ELSE s

RECURSIVE ReplaceRuns(_, _)
ReplaceRuns(s, set) ==
    IF s = <<>> THEN <<>>
    ELSE IF Head(s) \in set
         THEN <<"_">> \o ReplaceRuns(DropWhileIn(s, set), set)
         ELSE <<Head(s)>> \o ReplaceRuns(Tail(s), set)

RECURSIVE DropTrailing(_, _)
DropTrailing(s, set) ==
    IF s # <<>> /\ s[Len(s)] \in set
    THEN DropTrailing(SubSeq(s, 1, Len(s) - 1), set)
    ELSE s

Unnamed == <<"u", "n", "n", "a", "m", "e", "d">>

sanitizeIdSegment(name) ==
    IF name.t # "string" THEN Unnamed
    ELSE LET trimmed == Trim(name.s)
             spaced == ReplaceRuns(trimmed, {" "})
             mapped == [i \in DOMAIN spaced |->
                           IF spaced[i] \in IdChars THEN spaced[i] ELSE "_"]
             merged == ReplaceRuns(mapped, {"_"})
             s == DropTrailing(DropWhileIn(merged, {"_"}), {"_"})
         IN  IF s = <<>> THEN Unnamed ELSE s

\* String(minor).padStart(3, '0')
PadStart3(s) ==
    CASE Len(s) = 1 -> <<"0", "0">> \o s
      [] Len(s) = 2 -> <<"0">> \o s
      [] OTHER -> s

\* the position of the first "-" of s after position from, 0 when there is none
DashAfter(s, from) ==
    IF \E i \in (from + 1)..Len(s) : s[i] = "-"
    THEN CHOOSE i \in (from + 1)..Len(s) :
            s[i] = "-" /\ \A j \in (from + 1)..(i - 1) : s[j] # "-"
    ELSE 0

etsDptToKnxDpt(etsId) ==
    IF etsId.t # "string" \/ etsId.s = <<>> THEN Undefined
    ELSE LET s == Trim(etsId.s)
             k == DotAt(s)
             d1 == DashAfter(s, 0)
             d2 == DashAfter(s, d1)
         IN  CASE s = <<>> -> Undefined
               [] IsDigits(s) -> Str(s)
               [] k > 0 /\ IsDigits(SubSeq(s, 1, k - 1)) /\
                  IsDigits(SubSeq(s, k + 1, Len(s))) -> Str(s)
               [] d1 = 4 /\ SubSeq(s, 1, 3) = <<"D", "P", "T">> /\
                  IsDigits(SubSeq(s, 5, Len(s))) ->
                     Str(NatToStr(ParseDigits(SubSeq(s, 5, Len(s)))))
               [] d1 = 5 /\ SubSeq(s, 1, 4) = <<"D", "P", "S", "T">> /\ d2 > 0 /\
                  IsDigits(SubSeq(s, 6, d2 - 1)) /\ IsDigits(SubSeq(s, d2 + 1, Len(s))) ->
                     Str(NatToStr(ParseDigits(SubSeq(s, 6, d2 - 1))) \o <<".">> \o
                         PadStart3(NatToStr(ParseDigits(SubSeq(s, d2 + 1, Len(s))))))
               [] OTHER -> Undefined

inferCommonFromDpt(dpt) ==
    LET major == dptMajor(dpt)
    IN  CASE major = Num(1) -> [type |-> "boolean", role |-> "switch"]
          [] major = Num(16) -> [type |-> "string", role |-> "text"]
          [] major = Num(19) -> [type |-> "string", role |-> "date"]
          [] OTHER -> [type |-> "number", role |-> "value"]

-----------------------------------------------------------------------------
(* src/lib/knx-utils.js (ets-import part): walkGroupRanges, importEtsProject *)

GroupAddress(id, address, name, description, datapointType) ==
    [ID |-> id, address |-> address, name |-> name, description |-> description,
     datapointType |-> datapointType]

GroupRange(name, groupRanges, groupAddresses) ==
    [name |-> name, groupRanges |-> groupRanges, groupAddresses |-> groupAddresses]

\* nested ranges first, then the group addresses of the range itself; a range
\* without a name adds no path segment
RECURSIVE walkGroupRanges(_, _)
walkGroupRanges(groupRanges, pathSegments) ==
    IF groupRanges = <<>> THEN <<>>
    ELSE LET gr == Head(groupRanges)
             nextPath == IF Truthy(gr.name)
                         THEN Append(pathSegments, ToStr(gr.name))
                         ELSE pathSegments
         IN  walkGroupRanges(gr.groupRanges, nextPath) \o
             [i \in DOMAIN gr.groupAddresses |->
                 [groupRangePath |-> nextPath, groupAddress |-> gr.groupAddresses[i]]] \o
             walkGroupRanges(Tail(groupRanges), pathSegments)

\* result.projectInformation.groupAddressStyle || 'ThreeLevel', then the
\* override unless it is 'auto'; "" is an absent style
ResolveStyle(result, gaStyleOverride) ==
    LET styleFromProject == IF result.groupAddressStyle = "" THEN "ThreeLevel"
                            ELSE result.groupAddressStyle
    IN  IF gaStyleOverride # "" /\ gaStyleOverride # "auto" THEN gaStyleOverride
        ELSE styleFromProject

\* gaStr.replace(/\//g, '_')
SlashesToUnderscores(s) == [i \in DOMAIN s |-> IF s[i] = "/" THEN "_" ELSE s[i]]

Ga == <<"g", "a">>

\* faulty variant: the name of the group address is a segment of the id
EntryIdWithName(groupRangePath, groupAddress, gaStr) ==
    <<Ga>> \o [i \in DOMAIN groupRangePath |-> sanitizeIdSegment(Str(groupRangePath[i]))] \o
    <<sanitizeIdSegment(groupAddress.name)>> \o
    <<sanitizeIdSegment(Str(SlashesToUnderscores(gaStr)))>>

\* ['ga', ...groupRangePath.map(sanitizeIdSegment), gaSeg]: the segments of the id
EntryId(groupRangePath, groupAddress, gaStr) ==
    <<Ga>> \o [i \in DOMAIN groupRangePath |-> sanitizeIdSegment(Str(groupRangePath[i]))] \o
    <<sanitizeIdSegment(Str(SlashesToUnderscores(gaStr)))>>

\* the callback of collected.map
Entry(collected, style, flagsByGaId) ==
    LET groupAddress == collected.groupAddress
        gaStr == groupAddressNumberToString(groupAddress.address, style)
    IN  [id          |-> EntryId(collected.groupRangePath, groupAddress, gaStr),
         name        |-> IF Truthy(groupAddress.name) THEN ToStr(groupAddress.name) ELSE gaStr,
         description |-> IF Truthy(groupAddress.description)
                         THEN Str(ToStr(groupAddress.description)) ELSE Undefined,
         ga          |-> gaStr,
         dpt         |-> etsDptToKnxDpt(groupAddress.datapointType),
         flags       |-> IF groupAddress.ID \in DOMAIN flagsByGaId
                         THEN flagsByGaId[groupAddress.ID]
                         ELSE [readFlag |-> FALSE, writeFlag |-> FALSE,
                               transmitFlag |-> TRUE, updateFlag |-> FALSE]]

\* the entries importEtsProject builds from the parser's result
Entries(result, gaStyleOverride) ==
    LET style == ResolveStyle(result, gaStyleOverride)
        flagsByGaId == buildFlagsByGroupAddressId(result.topology)
        collected == ConcatAll([r \in DOMAIN result.groupAddresses |->
                                   walkGroupRanges(result.groupAddresses[r].groupRanges, <<>>)])
    IN  [i \in DOMAIN collected |-> Entry(collected[i], style, flagsByGaId)]

\* crypto.createHash('sha256').update(file).digest('hex'): the digest stands
\* for the bytes it was computed from
Sha256(file) == [sha256 |-> file]

\* a project file: the bytes stand for the project the parser reads from them
ProjectFile(result) == [bytes |-> result]

ErrorOf(message) == [error |-> message]

\* the values the parser returns instead of a result: instances of Error
ParserInitError == ErrorOf("parser: cannot unpack project")
ParserRunError == ErrorOf("parser: cannot parse project")


\* what an import finds: the parser module, the configuration, the files
\* of <namespace>.files, the local data directory and the parser's answers
Env(parser, etsProjectFile, gaStyleOverride, files, fsOk, init, run) ==
    [parser |-> parser, etsProjectFile |-> etsProjectFile,
     gaStyleOverride |-> gaStyleOverride, files |-> files, fsOk |-> fsOk,
     init |-> init, run |-> run]

\* a project: two ranges, the second unnamed, with one group address each
Project(style, name, description) ==
    [groupAddressStyle |-> style,
     topology |->
        Topology(<< Cor(Bool(TRUE), Flags(Bool(TRUE), Bool(TRUE), Bool(FALSE), Bool(FALSE)),
                        << Connector(<< Ref(GaId1, Undefined) >>, <<>>) >>) >>, 1),
     groupAddresses |->
        << [groupRanges |->
              << GroupRange(Str(<<" ", "E", " ", "G">>),
                    << GroupRange(Str(<<"#">>), <<>>,
                          << GroupAddress(GaId1, Num(2305), name, description,
                                          Str(<<"D", "P", "S", "T", "-", "1", "-", "1">>)) >>) >>,
                    <<>>),
                 GroupRange(Undefined, <<>>,
                    << GroupAddress(GaId2, Num(2306), Undefined, Undefined,
                                    Str(<<"D", "P", "T", "-", "9">>)) >>) >>] >>]

Projects ==
    { Project("", Str(<<"L">>), Undefined),
      Project("", Str(<<"L", "2">>), Str(<<"d">>)),
      Project("TwoLevel", Str(<<"L">>), Undefined) }

\* the environments in which the import produces its entries
GoodEnvs ==
    { Env(TRUE, Str(<<"p", " ">>), override, (<<"p">> :> ProjectFile(result)), TRUE, Null, Null) :
         override \in {"auto", "ThreeLevel"}, result \in Projects }
    \cup { Env(TRUE, Str(<<"p">>), "", (<<"e", "t", "s", "/", "p">> :> ProjectFile(Project("", Str(<<"L">>), Undefined))),
               TRUE, Null, Null) }

\* one environment per way the import fails before it has its entries
FailingEnvs ==
    LET files == (<<"p">> :> ProjectFile(Project("", Str(<<"L">>), Undefined)))
    IN  { Env(FALSE, Str(<<"p">>), "auto", files, TRUE, Null, Null),
          Env(TRUE, Undefined, "auto", files, TRUE, Null, Null),
          Env(TRUE, Str(<<" ">>), "auto", files, TRUE, Null, Null),
          Env(TRUE, Str(<<"p">>), "auto", <<>>, TRUE, Null, Null),
          Env(TRUE, Str(<<"e", "t", "s", "/", "p">>), "auto", files, TRUE, Null, Null),
          Env(TRUE, Str(<<"p">>), "auto", files, FALSE, Null, Null),
          Env(TRUE, Str(<<"p">>), "auto", files, TRUE, ParserInitError, Null),
          Env(TRUE, Str(<<"p">>), "auto", files, TRUE, Null, ParserRunError) }

Envs == GoodEnvs \cup FailingEnvs

Thrown(e) == [ok |-> FALSE, error |-> e]

\* the file importEtsProject reads: fileName, or ets/<fileName> when
\* fileName names no directory; Null when neither exists
ReadProjectFile(files, fileName) ==
    IF fileName \in DOMAIN files THEN files[fileName]
    ELSE IF (\A i \in DOMAIN fileName : fileName[i] # "/") /\
            (<<"e", "t", "s", "/">> \o fileName) \in DOMAIN files
         THEN files[<<"e", "t", "s", "/">> \o fileName]
         ELSE Null

\* faulty variant: only the first parser stage is tested for an Error
ParserFailureFirstStage(env) == env.init

\* init.constructor === Error, then result.constructor === Error
ParserFailure(env) == IF env.init # Null THEN env.init ELSE env.run

importEtsProject(env, etsFileName, gaStyleOverride) ==
    LET file == ReadProjectFile(env.files, Trim(etsFileName))
    IN  CASE ~env.parser -> Thrown(ErrorOf("Dependency \"ets_proj_parser\" not available"))
          [] env.parser /\ etsFileName = <<>> ->
                Thrown(ErrorOf("No ETS project file configured"))
          [] env.parser /\ etsFileName # <<>> /\ file = Null ->
                Thrown(ErrorOf("Could not read ETS project from ioBroker Files"))
          [] env.parser /\ etsFileName # <<>> /\ file # Null /\ ~env.fsOk -> Thrown(ErrorOf("EACCES"))
          [] env.parser /\ etsFileName # <<>> /\ file # Null /\ env.fsOk /\
             ParserFailure(env) # Null ->
                Thrown(ParserFailure(env))
          [] OTHER ->
                [ok |-> TRUE,
                 hash |-> Sha256(file),
                 style |-> ResolveStyle(file.bytes, gaStyleOverride),
                 entries |-> Entries(file.bytes, gaStyleOverride)]

-----------------------------------------------------------------------------
(* src/main.js: doImportEtsProject, ensureChannelsForState, upsertGaState *)

MaxImports == 2

\* the object upsertGaState builds from an entry
StateObject(entry) ==
    LET commonBase == inferCommonFromDpt(entry.dpt)
    IN  [type |-> "state",
         common |-> [name |-> entry.name, type |-> commonBase.type,
                     role |-> commonBase.role, read |-> TRUE,
                     write |-> entry.flags.writeFlag \/ entry.flags.readFlag],
         native |-> [ga |-> Str(entry.ga), dpt |-> entry.dpt,
                     flags |-> Flags(Bool(entry.flags.readFlag), Bool(entry.flags.writeFlag),
                                     Bool(entry.flags.transmitFlag), Bool(entry.flags.updateFlag)),
                     description |-> entry.description]]

\* ensureChannelsForState: every proper prefix of the id is a channel
ensureChannelsForState(stateIdRel) ==
    [i \in 1..(Len(stateIdRel) - 1) |->
        [op |-> "setObjectNotExists", id |-> SubSeq(stateIdRel, 1, i),
         obj |-> [type |-> "channel", common |-> [name |-> stateIdRel[i]],
                  native |-> <<>>]]]

upsertGaState(entry) ==
    << [op |-> "setObjectNotExists", id |-> entry.id, obj |-> StateObject(entry)],
       [op |-> "extendObject", id |-> entry.id, obj |-> StateObject(entry)] >>

\* the store calls of one iteration of the loop over the entries
EntryCalls(entry) == ensureChannelsForState(entry.id) \o upsertGaState(entry)

\* extendObject merges field by field; common has no undefined field
Overwritten(old, new) ==
    [f \in DOMAIN old \cup DOMAIN new |-> IF f \in DOMAIN new THEN new[f] ELSE old[f]]

\* a field of native given as undefined keeps its stored value
Merged(old, new) ==
    [f \in DOMAIN old \cup DOMAIN new |->
        IF f \in DOMAIN new /\ (f \notin DOMAIN old \/ new[f] # Undefined)
        THEN new[f] ELSE old[f]]

ApplyCall(store, call) ==
    IF call.op = "setObjectNotExists"
    THEN IF call.id \in DOMAIN store THEN store ELSE store @@ (call.id :> call.obj)
    ELSE IF call.id \in DOMAIN store
         THEN [store EXCEPT ![call.id] =
                  [type |-> store[call.id].type,
                   common |-> Overwritten(store[call.id].common, call.obj.common),
                   native |-> Merged(store[call.id].native, call.obj.native)]]
         ELSE store @@ (call.id :> call.obj)

RECURSIVE ApplyCalls(_, _)
ApplyCalls(store, calls) ==
    IF calls = <<>> THEN store
    ELSE ApplyCalls(ApplyCall(store, Head(calls)), Tail(calls))

StateWriteError == ErrorOf("store: setState rejected")
ObjectWriteError == ErrorOf("store: object write rejected")

ImportInit == EngineIdle /\ FlagsIdle /\ CodecIdle /\ ImportIdle /\ MessageIdle

\* doImportEtsProject up to the loop over the entries: the call of
\* importEtsProject and the write of info.etsHash, which the store may reject
doImportEtsProject ==
    /\ impPhase \in {"idle", "done", "failed"}
    /\ Len(impRuns) < MaxImports
    /\ \E env \in Envs, rejected \in BOOLEAN :
          LET fileName == IF Truthy(env.etsProjectFile)
                          THEN Trim(ToStr(env.etsProjectFile)) ELSE <<>>
              outcome == IF fileName = <<>>
                         THEN Thrown(ErrorOf("No ETS project file configured"))
                         ELSE importEtsProject(env, fileName,
                                 IF env.gaStyleOverride = "" THEN "auto"
                                 ELSE env.gaStyleOverride)
          IN  /\ impRuns' = Append(impRuns, [env |-> env, outcome |-> outcome])
              /\ impPos' = 0
              /\ IF ~outcome.ok
                 THEN /\ impPhase' = "failed"
                      /\ impError' = outcome.error
                      /\ impEntries' = <<>>
                      /\ UNCHANGED <<impHash, impStore>>
                 ELSE /\ impEntries' = outcome.entries
                      /\ IF rejected
                         THEN /\ impPhase' = "failed"
                              /\ impError' = StateWriteError
                              /\ UNCHANGED <<impHash, impStore>>
                         ELSE /\ impPhase' = IF outcome.entries = <<>> THEN "done"
                                             ELSE "persisting"
                              /\ impError' = Null
                              /\ impHash' = outcome.hash
                              /\ UNCHANGED impStore
    /\ UNCHANGED <<engineVars, flagTopology, flagPos, flagMap, encAddr, encStyle,
                   encText, rebuilding, messages,
                   callbacks, disconnecting>>

\* one iteration of the loop over the entries: the store calls are made in
\* order; when call number failAt is rejected the rejection leaves the loop
\* and doImportEtsProject
persistEntry ==
    /\ impPhase = "persisting"
    /\ LET calls == EntryCalls(impEntries[impPos + 1])
       IN  \E failAt \in 0..Len(calls) :
              IF failAt = 0
              THEN /\ impStore' = ApplyCalls(impStore, calls)
                   /\ impPos' = impPos + 1
                   /\ impPhase' = IF impPos + 1 = Len(impEntries) THEN "done"
                                   ELSE "persisting"
                   /\ UNCHANGED impError
              ELSE /\ impStore' = ApplyCalls(impStore, SubSeq(calls, 1, failAt - 1))
                   /\ impPhase' = "failed"
                   /\ impError' = ObjectWriteError
                   /\ UNCHANGED impPos
    /\ UNCHANGED <<impEntries, impHash, impRuns, engineVars, flagTopology, flagPos,
                   flagMap, encAddr, encStyle, encText, rebuilding, messages,
                   callbacks, disconnecting>>

ImportNext == doImportEtsProject \/ persistEntry

SpecImport == ImportInit /\ [][ImportNext]_vars

-----------------------------------------------------------------------------
(* src/main.js: onMessage('importEts'): doImportEtsProject, then            *)
(* rebuildRuntimeMapping, which clears metaByStateId and awaits the object  *)
(* view before it inserts the rows.  The import is followed step by step in *)
(* SpecImport; here it is its outcome: it throws, or it leaves the objects  *)
(* of a project in the store.                                               *)

MaxMessages == 1

\* the stores an import leaves: every state object under ga records an address
ImportedObjectSets ==
    { os \in ObjectSets : \A id \in DOMAIN os : os[id].ga # Undefined }

\* onMessage up to the await inside rebuildRuntimeMapping, or to the catch
onMessage ==
    /\ phase = "running"
    /\ ~rebuilding
    /\ messages < MaxMessages
    /\ messages' = messages + 1
    /\ \E imported \in BOOLEAN :
          /\ lastOp' = [op |-> "onMessage", imported |-> imported]
          /\ IF imported
             THEN /\ objects' \in ImportedObjectSets
                  /\ metaByStateId' = <<>>
                  /\ rebuilding' = TRUE
             ELSE UNCHANGED <<objects, metaByStateId, rebuilding>>
    /\ storeWrites' = <<>>
    /\ escaped' = FALSE
    /\ UNCHANGED <<phase, config, knxConnection, knxConnected, datapointsByStateId,
                   txQueue, txTimer, listeners, connects, enqueued, executed,
                   unloaded, callbacks, disconnecting>>
    /\ UNCHANGED pureVars

\* onMessage resumed: the rows of the object view are inserted and the
\* sender is answered; a rejected view leaves the index empty
onMessageRebuilt ==
    /\ rebuilding
    /\ rebuilding' = FALSE
    /\ \E viewed \in BOOLEAN :
          /\ metaByStateId' = IF viewed THEN MetaOfRows(ObjIds, objects) ELSE <<>>
          /\ lastOp' = [op |-> "onMessageRebuilt", viewed |-> viewed]
    /\ storeWrites' = <<>>
    /\ escaped' = FALSE
    /\ UNCHANGED <<phase, objects, config, knxConnection, knxConnected,
                   datapointsByStateId, txQueue, txTimer, listeners, connects,
                   enqueued, executed, unloaded, messages, callbacks,
                   disconnecting>>
    /\ UNCHANGED pureVars

MessageNext ==
    \/ Next
    \/ onMessage
    \/ onMessageRebuilt

\* an instance whose objects come from an earlier import, configured to
\* read on start
MessageInit ==
    /\ Constructed
    /\ objects \in ImportedObjectSets
    /\ config = [ackOnWrite |-> FALSE, readOnStart |-> TRUE]
    /\ FlagsIdle /\ CodecIdle /\ ImportIdle /\ MessageIdle

SpecMessage == MessageInit /\ [][MessageNext]_vars

-----------------------------------------------------------------------------
(* The objects under ga. are kept by the object store, which other          *)
(* processes change as well: getObjectViewAsync returns what is there when  *)
(* it is called.                                                            *)

\* an object under ga. is deleted, or the natives of the objects are replaced
objectsEdited ==
    /\ phase = "running"
    /\ \E os \in ObjectSets, keep \in SUBSET {IdA, IdB} :
          /\ objects' = [id \in keep |-> os[id]]
          /\ objects' # objects
    /\ storeWrites' = <<>>
    /\ escaped' = FALSE
    /\ lastOp' = [op |-> "objectsEdited"]
    /\ UNCHANGED <<phase, config, knxConnection, knxConnected, datapointsByStateId,
                   metaByStateId, txQueue, txTimer, listeners, connects, enqueued,
                   executed, unloaded>>
    /\ UNCHANGED otherVars

RebuildNext ==
    \/ onReady
    \/ onReadyRebuilt
    \/ onMessage
    \/ onMessageRebuilt
    \/ objectsEdited

SpecRebuild == Init /\ [][RebuildNext]_vars

\* the handlers of the engine, and the connection answering Disconnect
UnloadNext ==
    \/ Next
    \/ disconnectCallback

SpecUnload == MessageInit /\ [][UnloadNext]_vars

\* the engine with its interval timer: setInterval keeps calling the callback
\* for as long as txTimer is set
SpecLive == MessageInit /\ [][Next]_vars /\ WF_vars(txTimerTick)

-----------------------------------------------------------------------------
(* Properties *)

IsPrefix(s, t) == Len(s) <= Len(t) /\ SubSeq(t, 1, Len(s)) = s

\* the last handler was onStateChange with a present, non-acknowledged state
CommandEvent(op) == op.op = "onStateChange" /\ op.state # Null /\ ~op.state.ack

\* the relative id of an event in the adapter's own ga. namespace, else <<>>
GaIdOf(idFull) ==
    IF Len(idFull) > 3 /\ idFull[1] = "nexowatt-knx" /\ idFull[2] = "0" /\ idFull[3] = "ga"
    THEN SubSeq(idFull, 3, Len(idFull))
    ELSE <<>>

\* the event of op is a command for a record that has a bound datapoint
BoundCommand(op) ==
    /\ CommandEvent(op)
    /\ GaIdOf(op.id) \in MetaIds
    /\ GaIdOf(op.id) \in DpIds

\* C1: jobs run in the order they were pushed, at most one per timer tick, and
\* each job at most once: the jobs run so far followed by the jobs still queued
\* are exactly the jobs pushed so far, in push order, and a step runs at most
\* one job and runs it by taking it off the head of the queue.
C1_FifoOncePerTick ==
    /\ [](JobNumbers(executed) \o JobNumbers(txQueue) = [i \in 1..enqueued |-> i])
    /\ [][/\ Len(executed') <= Len(executed) + 1
          /\ executed' # executed =>
               /\ lastOp'.op = "txTimerTick"
               /\ executed' = Append(executed, Head(txQueue))
               /\ txQueue' = Tail(txQueue)]_vars

\* two jobs have run, the second one threw, and none is left or pushed again
C1_Witness ==
    /\ Len(executed) = 2
    /\ lastOp.op = "txTimerTick" /\ lastOp.threw
    /\ txQueue = <<>>

\* C2 as stated: a tick while not connected, a disconnected callback and a
\* connected callback all leave the queue exactly as it was.
C2_Original ==
    [][/\ (lastOp'.op = "txTimerTick" /\ ~knxConnected) =>
              (txQueue' = txQueue /\ executed' = executed)
       /\ lastOp'.op \in {"onKnxDisconnected", "onKnxConnected"} =>
              (txQueue' = txQueue /\ executed' = executed)]_vars

\* C2 amended: a tick while not connected removes and runs nothing; the
\* disconnected callback leaves the queue as it was; the connected callback
\* removes and reorders nothing (it only pushes its initial reads behind the
\* queued jobs); queued jobs carry increasing push numbers above those of the
\* jobs already run, so jobs queued while disconnected run first, in order.
C2_QueueSurvivesReconnect ==
    /\ [][/\ (lastOp'.op = "txTimerTick" /\ ~knxConnected) =>
                 (txQueue' = txQueue /\ executed' = executed /\ ~lastOp'.ran)
          /\ lastOp'.op = "onKnxDisconnected" =>
                 (txQueue' = txQueue /\ executed' = executed)
          /\ lastOp'.op = "onKnxConnected" =>
                 (IsPrefix(txQueue, txQueue') /\ executed' = executed)]_vars
    /\ [](/\ \A i, j \in 1..Len(txQueue) : i < j => txQueue[i].n < txQueue[j].n
          /\ \A i \in 1..Len(executed), j \in 1..Len(txQueue) :
                executed[i].n < txQueue[j].n)

\* a tick found the engine disconnected with jobs queued, after a reconnect
C2_Witness ==
    /\ lastOp.op = "txTimerTick" /\ ~lastOp.ran
    /\ ~knxConnected
    /\ connects = 2
    /\ Len(txQueue) = 2

\* C3: a job that throws is caught inside the tick: nothing escapes, the job
\* is gone from the queue, the timer stays, and a tick while connected always
\* runs the job at the head of the queue.
C3_ThrowContained ==
    /\ [][(lastOp'.op = "txTimerTick" /\ lastOp'.ran /\ lastOp'.threw) =>
             /\ ~escaped'
             /\ txQueue' = Tail(txQueue)
             /\ executed' = Append(executed, Head(txQueue))
             /\ txTimer']_vars
    /\ [][(lastOp'.op = "txTimerTick" /\ knxConnected /\ txQueue # <<>>) =>
             (lastOp'.ran /\ executed' = Append(executed, Head(txQueue)))]_vars
    /\ []((lastOp.op = "txTimerTick" /\ lastOp.threw) => (txTimer /\ ENABLED txTimerTick))

\* a job threw while connected and the next job is waiting for the next tick
C3_Witness ==
    /\ lastOp.op = "txTimerTick" /\ lastOp.ran /\ lastOp.threw
    /\ knxConnected
    /\ txQueue # <<>>

\* C4: an event without state or with the ack flag pushes no job and writes
\* nothing to the store.
C4_AckIgnored ==
    [][(lastOp'.op = "onStateChange" /\ (lastOp'.state = Null \/ lastOp'.state.ack)) =>
          (txQueue' = txQueue /\ enqueued' = enqueued /\ storeWrites' = <<>>)]_vars

\* an acknowledged event arrived for a writable, bound record with ackOnWrite on
C4_Witness ==
    /\ lastOp.op = "onStateChange"
    /\ lastOp.state # Null /\ lastOp.state.ack
    /\ GaIdOf(lastOp.id) \in MetaIds /\ GaIdOf(lastOp.id) \in DpIds
    /\ MetaGet(GaIdOf(lastOp.id)).flags.writeFlag
    /\ config.ackOnWrite
    /\ knxConnected

\* C5: a command for a bound record pushes one write job with the coerced
\* value if the write flag is set, else one read job if the read flag is set,
\* else nothing.
C5_FlagOutcome ==
    [][BoundCommand(lastOp') =>
          LET idRel == GaIdOf(lastOp'.id)
              meta == MetaGet(idRel)
              dp == datapointsByStateId[idRel]
          IN  /\ meta.flags.writeFlag =>
                    \E value \in coerceToKnxValue(lastOp'.state.val, meta.dpt) :
                       txQueue' = Append(txQueue,
                           [n |-> enqueued + 1, kind |-> "write", dp |-> dp,
                            value |-> value, descr |-> <<"write", meta.ga>>])
              /\ (~meta.flags.writeFlag /\ meta.flags.readFlag) =>
                    txQueue' = Append(txQueue,
                        [n |-> enqueued + 1, kind |-> "read", dp |-> dp,
                         value |-> Undefined, descr |-> <<"read", meta.ga>>])
              /\ (~meta.flags.writeFlag /\ ~meta.flags.readFlag) =>
                    txQueue' = txQueue]_vars

\* a command for a record with both flags pushed a write job whose value is
\* the boolean coerced from the string " ON"
C5_Witness ==
    /\ BoundCommand(lastOp)
    /\ MetaGet(GaIdOf(lastOp.id)).flags.writeFlag
    /\ MetaGet(GaIdOf(lastOp.id)).flags.readFlag
    /\ txQueue # <<>>
    /\ txQueue[Len(txQueue)].kind = "write"
    /\ txQueue[Len(txQueue)].value = Bool(TRUE)
    /\ lastOp.state.val = Str(<<" ", "O", "N">>)

\* C6: with ackOnWrite each of the three flag outcomes writes the event's own
\* value back once, with the ack flag, in the step that handles the event and
\* before the pushed job has run; without ackOnWrite no event writes anything.
C6_ReAcknowledge ==
    /\ [][BoundCommand(lastOp') =>
             /\ config.ackOnWrite =>
                   storeWrites' = <<[id |-> GaIdOf(lastOp'.id),
                                     val |-> lastOp'.state.val, ack |-> TRUE]>>
             /\ executed' = executed
             /\ txQueue' # txQueue => txQueue'[Len(txQueue')].n = enqueued']_vars
    /\ []((lastOp.op = "onStateChange" /\ ~config.ackOnWrite) => storeWrites = <<>>)

\* a command for a record with neither flag was acknowledged
C6_Witness ==
    /\ BoundCommand(lastOp)
    /\ ~MetaGet(GaIdOf(lastOp.id)).flags.writeFlag
    /\ ~MetaGet(GaIdOf(lastOp.id)).flags.readFlag
    /\ Len(storeWrites) = 1
    /\ storeWrites[1].ack /\ storeWrites[1].val = Str(<<" ", "O", "N">>)

\* C7: a command changes neither the queue nor the store unless its id is in
\* the adapter's ga. namespace and has a record and a bound datapoint; nothing
\* is queued before the first connected callback.
C7_UnmappedDropped ==
    /\ [][(CommandEvent(lastOp') /\ ~BoundCommand(lastOp')) =>
             (txQueue' = txQueue /\ enqueued' = enqueued /\ storeWrites' = <<>>)]_vars
    /\ [](connects = 0 => (txQueue = <<>> /\ enqueued = 0 /\ datapointsByStateId = <<>>))

\* with ackOnWrite on, a command for a writable record arrived before the
\* first connected callback
C7_Witness ==
    /\ CommandEvent(lastOp)
    /\ GaIdOf(lastOp.id) \in MetaIds
    /\ MetaGet(GaIdOf(lastOp.id)).flags.writeFlag
    /\ connects = 0 /\ knxConnection
    /\ config.ackOnWrite

\* C8: a connected callback removes the listener of every datapoint bound
\* before it; at most one datapoint per id has a listener, every datapoint
\* with a listener is the one in the index, and a bus change writes at most
\* once per id.
C8_SingleSubscription ==
    /\ [][lastOp'.op = "onKnxConnected" => listeners' \cap listeners = {}]_vars
    /\ [](/\ \A dp1, dp2 \in listeners : dp1.id = dp2.id => dp1 = dp2
          /\ \A dp \in listeners : dp.id \in DpIds /\ datapointsByStateId[dp.id] = dp
          /\ lastOp.op = "busChange" =>
                \A i, j \in 1..Len(storeWrites) :
                   storeWrites[i].id = storeWrites[j].id => i = j)

\* after a reconnect a bus change on an address shared by two ids wrote both
C8_Witness ==
    /\ connects = 2
    /\ lastOp.op = "busChange"
    /\ Len(storeWrites) = 2
    /\ storeWrites[1].id # storeWrites[2].id

\* C9 as stated: while knxConnected is false no datapoint has a listener.
C9_Original == ~knxConnected => listeners = {}

\* C9 amended: the disconnected callback leaves the bindings and their
\* listeners in place; listeners are only removed by the rebinding of the next
\* connected callback or by onUnload, which leaves none; before the first
\* connected callback there is no binding.
C9_BindingsOutliveDisconnect ==
    /\ [][lastOp'.op = "onKnxDisconnected" =>
             (listeners' = listeners /\ datapointsByStateId' = datapointsByStateId)]_vars
    /\ [][~(listeners \subseteq listeners') =>
             lastOp'.op \in {"onKnxConnected", "onUnload"}]_vars
    /\ [][lastOp'.op = "onUnload" => (listeners' = {} /\ datapointsByStateId' = <<>>)]_vars
    /\ [](connects = 0 => listeners = {})

\* the engine is disconnected after a connection and a binding still listens
C9_Witness ==
    /\ lastOp.op = "onKnxDisconnected"
    /\ ~knxConnected
    /\ listeners # {}
    /\ ~unloaded

\* C10 as stated: after an error callback or onUnload knxConnected is false.
C10_Original == lastOp.op \in {"onKnxError", "onUnload"} => ~knxConnected

\* C10 amended: the error callback changes nothing of the engine; only the
\* disconnected callback clears knxConnected, after which a tick runs no job
\* until a connected callback; onUnload stops the timer and leaves
\* knxConnected as it is.
C10_OnlyDisconnectClearsFlag ==
    /\ [][lastOp'.op = "onKnxError" =>
             UNCHANGED <<knxConnected, txQueue, txTimer, executed,
                         datapointsByStateId, listeners>>]_vars
    /\ [][lastOp'.op = "onKnxDisconnected" => ~knxConnected']_vars
    /\ [][(knxConnected /\ ~knxConnected') => lastOp'.op = "onKnxDisconnected"]_vars
    /\ [][(~knxConnected /\ executed' # executed) => FALSE]_vars
    /\ [][lastOp'.op = "onUnload" => (~txTimer' /\ knxConnected' = knxConnected)]_vars

\* an error callback arrived while connected, with a job queued
C10_Witness ==
    /\ lastOp.op = "onKnxError"
    /\ knxConnected
    /\ txQueue # <<>>

\* C11: once onUnload has run, no job is run, no bus change is written to the
\* store, the timer is not started again and no datapoint is bound again,
\* whatever callbacks and ticks follow.
C11_QuietAfterUnload ==
    [][unloaded =>
          /\ executed' = executed
          /\ ~txTimer'
          /\ datapointsByStateId' = <<>>
          /\ listeners' = {}
          /\ lastOp'.op = "busChange" => storeWrites' = <<>>]_vars

\* C12: the flags of a group address are, flag by flag, the OR over the
\* active references that name it, whatever the order of the references;
\* visiting one more reference never turns a true flag false, and an
\* inactive reference changes nothing.
C12_FlagsAreOrOfActive ==
    /\ [](flagPos = Len(CorsOf(flagTopology)) =>
            LET cors == CorsOf(flagTopology)
                Names(c, g) ==
                    \E i \in DOMAIN c.connectors :
                       \/ \E j \in DOMAIN c.connectors[i].send :
                             c.connectors[i].send[j].refId = g
                       \/ \E j \in DOMAIN c.connectors[i].receive :
                             LET r == c.connectors[i].receive[j]
                             IN  \/ r.refId = g
                                 \/ r.refId \in {Undefined, Null, Str(<<>>)} /\ r.redId = g
                Active(g) == { i \in DOMAIN cors :
                                 cors[i].isActive # Bool(FALSE) /\ Names(cors[i], g) }
                Set(f, g) == \E i \in Active(g) : cors[i].flags[f] = Bool(TRUE)
            IN  /\ DOMAIN flagMap = { g \in {GaId1, GaId2} : Active(g) # {} }
                /\ \A g \in DOMAIN flagMap :
                      \A f \in {"readFlag", "writeFlag", "transmitFlag", "updateFlag"} :
                         flagMap[g][f] = Set(f, g))
    /\ [][/\ DOMAIN flagMap \subseteq DOMAIN flagMap'
          /\ \A g \in DOMAIN flagMap :
                \A f \in {"readFlag", "writeFlag", "transmitFlag", "updateFlag"} :
                   flagMap[g][f] => flagMap'[g][f]
          /\ CorsOf(flagTopology)[flagPos'].isActive = Bool(FALSE) =>
                flagMap' = flagMap]_vars

\* a write-only and a read-only reference of one group address were
\* aggregated, after an inactive one: the address has both flags
C12_Witness ==
    /\ flagPos = 3
    /\ flagPos = Len(CorsOf(flagTopology))
    /\ CorsOf(flagTopology)[1].isActive = Bool(FALSE)
    /\ ~Truthy(CorsOf(flagTopology)[2].flags.readFlag)
    /\ ~Truthy(CorsOf(flagTopology)[3].flags.writeFlag)
    /\ GaId1 \in DOMAIN flagMap
    /\ flagMap[GaId1].readFlag /\ flagMap[GaId1].writeFlag
    /\ ~flagMap[GaId1].updateFlag

\* the parts of a rendered address: the digits between the "/" separators
RECURSIVE SplitSlash(_)
SplitSlash(s) ==
    IF \A i \in DOMAIN s : s[i] # "/" THEN <<s>>
    ELSE LET k == CHOOSE i \in DOMAIN s :
                      s[i] = "/" /\ \A j \in 1..(i - 1) : s[j] # "/"
         IN  <<SubSeq(s, 1, k - 1)>> \o SplitSlash(SubSeq(s, k + 1, Len(s)))

\* the address a rendered string denotes in a style's bit layout, -1 when
\* the string is not of that layout
Decode(text, style) ==
    LET parts == SplitSlash(text)
        ok == \A i \in DOMAIN parts : IsDigits(parts[i])
        p(i) == ParseDigits(parts[i])
    IN  CASE style = "ThreeLevel" /\ Len(parts) = 3 /\ ok /\
             p(1) < 32 /\ p(2) < 8 /\ p(3) < 256 ->
                p(1) * 2048 + p(2) * 256 + p(3)
          [] style = "TwoLevel" /\ Len(parts) = 2 /\ ok /\
             p(1) < 32 /\ p(2) < 2048 ->
                p(1) * 2048 + p(2)
          [] OTHER -> 0 - 1

\* C13: in the ThreeLevel and TwoLevel styles the rendering of an address of
\* 0..65535 decodes, in the style's bit layout, to that address; the rendering
\* of an integer outside the range is the rendering of its low 16 bits.
C13_RoundTrip ==
    (encText # Undefined /\ encAddr.t = "number" /\ encStyle \in {"ThreeLevel", "TwoLevel"}) =>
        /\ encAddr.n \in AddressRange => Decode(encText.s, encStyle) = encAddr.n
        /\ encAddr.n \notin AddressRange =>
              \E a \in AddressRange :
                 /\ \E k \in (0 - 2)..2 : encAddr.n = a + k * 65536
                 /\ Decode(encText.s, encStyle) = a

\* 6143 was rendered as 2/2047 in the TwoLevel style
C13_Witness ==
    /\ encStyle = "TwoLevel"
    /\ encAddr = Num(6143)
    /\ encText = Str(<<"2", "/", "2", "0", "4", "7">>)

\* C14: an address rendered in the Free style is the decimal text of the
\* 16-bit address, without separators.
C14_FreeIsDecimal ==
    (encText # Undefined /\ encAddr.t = "number" /\ encStyle = "Free") =>
        encText.s = NatToStr(Low16(encAddr.n))

\* the file an import read: the one file of its environment
FileOf(run) == run.env.files[CHOOSE f \in DOMAIN run.env.files : TRUE]

OverrideOf(run) == IF run.env.gaStyleOverride = "" THEN "auto" ELSE run.env.gaStyleOverride

IdsOf(run) == [i \in DOMAIN run.outcome.entries |-> run.outcome.entries[i].id]

\* a project without the names and descriptions of its group addresses
RECURSIVE ErasedRanges(_)
ErasedRanges(ranges) ==
    [i \in DOMAIN ranges |->
        [name |-> ranges[i].name,
         groupRanges |-> ErasedRanges(ranges[i].groupRanges),
         groupAddresses |->
            [k \in DOMAIN ranges[i].groupAddresses |->
                [ranges[i].groupAddresses[k] EXCEPT !.name = Undefined,
                                                    !.description = Undefined]]]]

Erased(result) ==
    [result EXCEPT !.groupAddresses =
        [r \in DOMAIN result.groupAddresses |->
            [groupRanges |-> ErasedRanges(result.groupAddresses[r].groupRanges)]]]

\* C15: two imports of the same bytes with the same style override produce
\* the same hash and the same sequence of entry identifiers, and two imports
\* of projects that differ only in names or descriptions of group addresses
\* produce the same sequence of entry identifiers.
C15_StableIds ==
    \A i, j \in DOMAIN impRuns :
       (impRuns[i].outcome.ok /\ impRuns[j].outcome.ok /\
        OverrideOf(impRuns[i]) = OverrideOf(impRuns[j])) =>
           /\ FileOf(impRuns[i]) = FileOf(impRuns[j]) =>
                 /\ impRuns[i].outcome.hash = impRuns[j].outcome.hash
                 /\ IdsOf(impRuns[i]) = IdsOf(impRuns[j])
           /\ Erased(FileOf(impRuns[i]).bytes) = Erased(FileOf(impRuns[j]).bytes) =>
                 IdsOf(impRuns[i]) = IdsOf(impRuns[j])

\* a project was imported, a group address renamed and described, and the
\* project imported again: another hash, the same identifiers
C15_Witness ==
    /\ Len(impRuns) = 2
    /\ impRuns[1].outcome.ok /\ impRuns[2].outcome.ok
    /\ OverrideOf(impRuns[1]) = OverrideOf(impRuns[2])
    /\ FileOf(impRuns[1]) # FileOf(impRuns[2])
    /\ Erased(FileOf(impRuns[1]).bytes) = Erased(FileOf(impRuns[2]).bytes)
    /\ impRuns[1].outcome.hash # impRuns[2].outcome.hash
    /\ IdsOf(impRuns[2]) =
          << <<Ga, <<"E", "_", "G">>, Unnamed, <<"1", "_", "1", "_", "1">>>>,
             <<Ga, <<"1", "_", "1", "_", "2">>>> >>

\* C16: an import that fails before it has its entries (no parser, no file
\* name, no file, a file system error, a parser error at either stage)
\* leaves the objects and the stored hash as they were, persists no entry,
\* and throws the parser's error value itself.
C16_FailedImportWritesNothing ==
    [][(Len(impRuns') = Len(impRuns) + 1 /\ impRuns'[Len(impRuns')].env \in FailingEnvs) =>
          LET env == impRuns'[Len(impRuns')].env
          IN  /\ impStore' = impStore
              /\ impHash' = impHash
              /\ impPhase' = "failed"
              /\ impEntries' = <<>>
              /\ env.init # Null => impError' = env.init
              /\ (env.init = Null /\ env.run # Null) => impError' = env.run]_vars

\* after a successful import, an import failed at the second parser stage:
\* the hash and the objects of the first import are still there
C16_Witness ==
    /\ Len(impRuns) = 2
    /\ impRuns[1].outcome.ok
    /\ impRuns[2].env.run = ParserRunError
    /\ impPhase = "failed"
    /\ impError = ParserRunError
    /\ impHash = impRuns[1].outcome.hash
    /\ \A i \in DOMAIN impRuns[1].outcome.entries :
          impRuns[1].outcome.entries[i].id \in DOMAIN impStore

\* C17: when the persistence of one entry fails, every other entry of the
\* list is persisted.
C17_EntriesIndependent ==
    (impPhase = "failed" /\ impError = ObjectWriteError) =>
        \A i \in DOMAIN impEntries :
           i # impPos + 1 =>
              /\ impEntries[i].id \in DOMAIN impStore
              /\ impStore[impEntries[i].id].native.ga = Str(impEntries[i].ga)

\* C18: a bus change delivered to the bound datapoints of an address makes
\* exactly one store write per datapoint, in the order of delivery, of the
\* new value (a Date as its ISO text) to the datapoint's identifier with
\* ack set, the datapoints being notified in the order they were bound; a rejected write is not repeated, keeps no later write from
\* being made and does not leave the handler.
C18_OneAckWritePerChange ==
    [][lastOp'.op = "busChange" =>
          LET bound == { dp \in listeners : dp.ga = lastOp'.ga }
              val == IF lastOp'.val.t = "date" THEN Str(toISOString(lastOp'.val))
                     ELSE lastOp'.val
          IN  /\ Len(storeWrites') = Cardinality(bound)
              /\ \A dp \in bound :
                    \E i \in DOMAIN storeWrites' :
                       storeWrites'[i] = [id |-> dp.id, val |-> val, ack |-> TRUE]
              /\ \A i, j \in DOMAIN storeWrites' :
                    i < j =>
                       \E a, b \in DOMAIN metaByStateId :
                          /\ a < b
                          /\ metaByStateId[a].id = storeWrites'[i].id
                          /\ metaByStateId[b].id = storeWrites'[j].id
              /\ ~escaped'
              /\ UNCHANGED <<txQueue, executed, listeners, datapointsByStateId>>]_vars

\* a Date arrived for an address with two bound datapoints, and the write
\* of the first was rejected: both writes were made
C18_Witness ==
    /\ lastOp.op = "busChange"
    /\ lastOp.val = Epoch0
    /\ lastOp.rejected = {1}
    /\ Len(storeWrites) = 2
    /\ storeWrites[1].id # storeWrites[2].id
    /\ \A i \in 1..2 : storeWrites[i].ack /\ storeWrites[i].val.t = "string"

\* C19: a rejected store write never leaves a runtime handler: neither the
\* write of a bus change nor the re-acknowledge write of a store event makes
\* the handler fail, and the job enqueued for the event stays queued.
C19_StoreFailureContained ==
    [][lastOp'.op \in {"onStateChange", "busChange"} =>
          /\ ~escaped'
          /\ IsPrefix(txQueue, txQueue')]_vars

\* C20: while a rebuild is between clearing the index and re-inserting the
\* records, at startup or after an import message, no store event looks up
\* a record and no connected callback iterates the index.
C20_NoReadDuringRebuild ==
    [][(rebuilding \/ phase = "rebuilding") =>
          /\ ~(CommandEvent(lastOp') /\ GaIdOf(lastOp'.id) # <<>>)
          /\ lastOp'.op # "onKnxConnected"]_vars

\* C21: when a rebuild completes, the index holds one record for each state
\* object under ga. that records an address, built from that object, and no
\* other record: what the index held before the rebuild does not matter.
C21_RebuildIsFullReplace ==
    [][(lastOp'.op = "onReadyRebuilt" \/
        (lastOp'.op = "onMessageRebuilt" /\ lastOp'.viewed)) =>
          LET recorded == { id \in DOMAIN objects :
                              objects[id].ga \notin {Undefined, Null, Str(<<>>)} }
          IN  /\ \A i, j \in DOMAIN metaByStateId' :
                    metaByStateId'[i].id = metaByStateId'[j].id => i = j
              /\ { metaByStateId'[i].id : i \in DOMAIN metaByStateId' } = recorded
              /\ \A i \in DOMAIN metaByStateId' :
                    LET meta == metaByStateId'[i]
                        native == objects[meta.id]
                    IN  /\ meta.ga = native.ga
                        /\ native.dpt.t = "string" => meta.dpt = native.dpt
                        /\ native.dpt = Undefined => meta.dpt = Undefined
                        /\ meta.flags.readFlag = (native.flags.readFlag = Bool(TRUE))
                        /\ meta.flags.writeFlag = (native.flags.writeFlag = Bool(TRUE))
                        /\ meta.flags.transmitFlag = (native.flags.transmitFlag # Bool(FALSE))]_vars

\* the index held two records; during the rebuild of an import message one
\* object was deleted and the other lost its address: the index is empty
C21_Witness ==
    /\ lastOp.op = "onMessageRebuilt" /\ lastOp.viewed
    /\ DOMAIN objects = {IdA}
    /\ objects[IdA].ga = Undefined
    /\ metaByStateId = <<>>

\* C22 as stated: a connected callback with readOnStart appends one read job
\* per record whose read flag is set, and without readOnStart none.
C22_Original ==
    [][lastOp'.op = "onKnxConnected" =>
          /\ IsPrefix(txQueue, txQueue')
          /\ Len(txQueue') - Len(txQueue) =
                IF config.readOnStart
                THEN Cardinality({ i \in DOMAIN metaByStateId :
                                     metaByStateId[i].flags.readFlag })
                ELSE 0]_vars

\* C22 amended: a connected callback with readOnStart appends, behind the
\* jobs already queued and in the order of the index, one read job per record
\* whose read flag is set and whose datapoint the rebinding of this callback
\* has bound, each job on that new datapoint; a record whose datapoint could
\* not be constructed gets no job; without readOnStart nothing is appended.
C22_InitialReads ==
    [][lastOp'.op = "onKnxConnected" =>
          LET readable == { i \in DOMAIN metaByStateId :
                              /\ metaByStateId[i].flags.readFlag
                              /\ metaByStateId[i].id \in DOMAIN datapointsByStateId' }
              appended == SubSeq(txQueue', Len(txQueue) + 1, Len(txQueue'))
          IN  /\ IsPrefix(txQueue, txQueue')
              /\ ~config.readOnStart => appended = <<>>
              /\ config.readOnStart =>
                    /\ Len(appended) = Cardinality(readable)
                    /\ \A k \in DOMAIN appended :
                          /\ appended[k].kind = "read"
                          /\ appended[k].dp.gen = connects'
                          /\ appended[k].dp \in listeners'
                          /\ \E i \in readable :
                                appended[k].dp = datapointsByStateId'[metaByStateId[i].id]
                    /\ \A k, l \in DOMAIN appended :
                          k < l =>
                             \E i, j \in readable :
                                /\ i < j
                                /\ appended[k].dp.id = metaByStateId[i].id
                                /\ appended[l].dp.id = metaByStateId[j].id]_vars

\* the second connected callback pushed its read behind the read of the
\* first, and a readable record whose datapoint failed got none
C22_Witness ==
    /\ lastOp.op = "onKnxConnected"
    /\ config.readOnStart
    /\ connects = 2
    /\ Len(txQueue) = 2
    /\ txQueue[1].kind = "read" /\ txQueue[1].dp.gen = 1
    /\ txQueue[2].kind = "read" /\ txQueue[2].dp.gen = 2
    /\ \E i \in DOMAIN metaByStateId :
          metaByStateId[i].flags.readFlag /\ metaByStateId[i].id \notin DpIds

\* C23: onUnload stops the timer, removes the listeners of every datapoint of
\* the index and clears the index before it calls Disconnect, and the
\* callback of onUnload is invoked exactly once: by onUnload itself when there
\* is no connection or when Disconnect throws, else by the function handed to
\* Disconnect; it is never invoked before onUnload and never a second time.
C23_TeardownOrder ==
    [][/\ callbacks' = (IF unloaded' /\ ~disconnecting' THEN 1 ELSE 0)
       /\ disconnecting' => unloaded'
       /\ lastOp'.op = "disconnectCallback" => (disconnecting /\ callbacks = 0)
       /\ lastOp'.op = "onUnload" =>
             LET calls == lastOp'.calls
                 At(c) == { k \in DOMAIN calls : calls[k].call = c }
             IN  /\ ~txTimer'
                 /\ datapointsByStateId' = <<>>
                 /\ listeners' \cap Range(datapointsByStateId) = {}
                 /\ (At("Disconnect") # {}) = knxConnection
                 /\ \A d \in At("Disconnect") :
                       /\ txTimer => \E k \in At("clearInterval") : k < d
                       /\ \E k \in At("removeAllListeners") :
                             k < d /\ calls[k].dps = Range(datapointsByStateId)
                       /\ \E k \in At("clear") : k < d
                       /\ \A k \in At("callback") : d < k
                 /\ Cardinality(At("callback")) = callbacks'
                 /\ callbacks = 0]_vars

\* a teardown with a running timer, bound datapoints and a connection whose
\* Disconnect throws
C23_Witness ==
    /\ lastOp.op = "onUnload"
    /\ callbacks = 1
    /\ \E k \in DOMAIN lastOp.calls : lastOp.calls[k].call = "clearInterval"
    /\ \E k \in DOMAIN lastOp.calls :
          /\ lastOp.calls[k].call = "removeAllListeners"
          /\ lastOp.calls[k].dps # {}
    /\ \E k \in DOMAIN lastOp.calls : lastOp.calls[k].call = "Disconnect"

\* C24: every job the timer runs calls read or write on the datapoint that
\* datapointsByStateId holds for the job's identifier at that moment, a
\* datapoint whose change listener is still registered.
C24_JobsUseCurrentBinding ==
    [][(lastOp'.op = "txTimerTick" /\ lastOp'.ran) =>
          LET job == Head(txQueue)
          IN  /\ job.dp.id \in DOMAIN datapointsByStateId
              /\ datapointsByStateId[job.dp.id] = job.dp
              /\ job.dp \in listeners]_vars

\* C25: while knxConnected is set and no rebuild is in progress, every
\* identifier of datapointsByStateId has a record in metaByStateId and its
\* datapoint was constructed with the ga and the dpt of that record (the
\* identifiers of the index without a datapoint being those whose
\* construction failed), also after an importEts message rebuilt the index.
C25_BindingsMatchMapping ==
    (knxConnected /\ phase = "running" /\ ~rebuilding) =>
        \A id \in DOMAIN datapointsByStateId :
           /\ id \in MetaIds
           /\ datapointsByStateId[id].ga = MetaGet(id).ga
           /\ datapointsByStateId[id].dpt = MetaGet(id).dpt

\* C26: once an import has ended, info.etsHash holding the hash this import
\* computed for its project file means that every entry of this import has
\* its state object in the store: an import whose loop over the entries was
\* left by a rejected store call has not set the hash to its file's hash.
C26_HashMeansPersisted ==
    (impRuns # <<>> /\ impPhase \in {"done", "failed"}) =>
        LET run == impRuns[Len(impRuns)]
        IN  (run.outcome.ok /\ impError # StateWriteError /\
             impHash = run.outcome.hash) =>
                \A i \in DOMAIN run.outcome.entries :
                   /\ run.outcome.entries[i].id \in DOMAIN impStore
                   /\ impStore[run.outcome.entries[i].id].native.ga =
                         Str(run.outcome.entries[i].ga)

\* C27: with a timer that keeps ticking, if from some point on knxConnected
\* stays set and onUnload never runs, every job in txQueue is eventually run
\* by the timer; and a step removes a job from txQueue only by running it:
\* the queue is either extended or loses its head to the history of run jobs.
C27_JobsEventuallyRun ==
    /\ <>[](knxConnected /\ ~unloaded) =>
          \A n \in 1..MaxJobs :
             (\E i \in DOMAIN txQueue : txQueue[i].n = n)
                ~> (\E i \in DOMAIN executed : executed[i].n = n)
    /\ [][/\ IsPrefix(executed, executed')
          /\ \/ IsPrefix(txQueue, txQueue') /\ executed' = executed
             \/ /\ txQueue # <<>>
                /\ txQueue' = Tail(txQueue)
                /\ executed' = Append(executed, Head(txQueue))]_vars

\* a job pushed by the first connected callback and one pushed by the second
\* have both been run, the engine is connected and not torn down
C27_Witness ==
    /\ lastOp.op = "txTimerTick" /\ lastOp.ran
    /\ knxConnected /\ ~unloaded
    /\ txQueue = <<>>
    /\ Len(executed) = 2
    /\ executed[1].dp.gen = 1 /\ executed[2].dp.gen = 2

====
